---- MODULE Spec2Model ----
(***************************************************************************)
(* State-machine model of the S3-to-Irys gateway: the SQLite mapping store *)
(* (lib/database.js), the Irys client (lib/irysClient.js), the raw-upload  *)
(* middleware (middleware/index.js), the router (routes/s3Routes.js) and   *)
(* the S3 handlers (controllers/s3Controller.js).                          *)
(*                                                                         *)
(* Every HTTP request runs in a request slot.  A handler is an async       *)
(* function: each `await` of a database statement or of the backend is a   *)
(* suspension point, so each statement is one atomic step and the steps of *)
(* different requests interleave freely.                                   *)
(***************************************************************************)
EXTENDS Integers, Sequences, FiniteSets, TLC

\* ------------------------------------------------------------------ bounds
\* Number of uploads the backend performs in a run (receipt ids 1..MaxUploads).
MaxUploads == 2
\* CURRENT_TIMESTAMP ranges over 0..MaxTime (whole seconds).
MaxTime == 1
\* Number of 'data' events a raw request stream delivers before it closes.
MaxChunks == 2
\* Largest chunk, in bytes, that one 'data' event delivers.
MaxChunkLen == 2
\* Number of object rows in the store a read-only run starts from.
MaxRows == 3
\* Number of uploader instances a run constructs, and number of callers of
\* getIrysUploader whose calls may overlap.
MaxInstances == 3
MaxCallers == 4
MaxConnections == 3

\* Concurrent request slots, bucket names and object keys of the run, and
\* the byte values of a payload.  A key is the sequence of its byte values
\* (97 = "a").
Req == {1, 2}
Buckets == {"b1", "b2"}
Keys == {<<97>>}
Bytes == {0}

\* The request slots and the keys of a read-only run (a, a/, b), which
\* starts from a store with rows of bucket b1.
ReadReq == {1}
ListKeys == {<<97>>, <<97, 47>>, <<98>>}

\* config.api.maxFileSize as parsed by parseSize, run with MAX_FILE_SIZE=2B.
MaxFileSize == 2

\* ------------------------------------------------------------------- state
VARIABLES
    objects,     \* rows of table objects
    buckets,     \* rows of table buckets
    nextId,      \* AUTOINCREMENT sequence of objects.id
    now,         \* CURRENT_TIMESTAMP, in seconds
    backend,     \* receipt ids of the payloads the backend has accepted
    nextReceipt, \* number of receipts the backend has issued
    req,         \* per request slot: the handler's position and locals
    irys,        \* irysClient.js: the cached uploader, how many were built,
                 \* and which of them were switched to devnet
    db           \* database.js: the cached handle, how many connections were
                 \* opened, and the tables the database file has

vars == <<objects, buckets, nextId, now, backend, nextReceipt, req, irys, db>>

\* The absent row (database.get found nothing / JavaScript null).
Null == [id |-> 0]

\* ------------------------------------------------------- pure SQL helpers
\* `"${irysReceipt.id}"`
Quoted(s) == <<"\"", s, "\"">>

\* Buffer.concat(chunks)
RECURSIVE BufferConcat(_)
BufferConcat(chunks) ==
    IF chunks = <<>> THEN <<>> ELSE Head(chunks) \o BufferConcat(Tail(chunks))

\* Byte-wise comparison of two keys (SQLite BINARY collation): a < b.
RECURSIVE KeyLess(_, _)
KeyLess(a, b) ==
    IF b = <<>> THEN FALSE
    ELSE IF a = <<>> THEN TRUE
    ELSE IF Head(a) # Head(b) THEN Head(a) < Head(b)
    ELSE KeyLess(Tail(a), Tail(b))

\* ------------------------------------------------------------- metadata
\* A header name or metadata key is the sequence of its characters; the
\* headers of a request are <<name, value>> pairs in req.headers' order, an
\* object with string values is the sequence of its own <<key, value>>
\* properties in insertion order.
XAmzMeta == <<"x", "-", "a", "m", "z", "-", "m", "e", "t", "a", "-">>

\* header.startsWith(prefix)
StartsWith(str, prefix) ==
    /\ Len(str) >= Len(prefix)
    /\ SubSeq(str, 1, Len(prefix)) = prefix

\* header.replace(pattern, ''): the first occurrence is taken out.
RECURSIVE Replace(_, _)
Replace(str, pattern) ==
    IF Len(str) < Len(pattern) THEN str
    ELSE IF StartsWith(str, pattern)
    THEN SubSeq(str, Len(pattern) + 1, Len(str))
    ELSE <<Head(str)>> \o Replace(Tail(str), pattern)

\* The key whose assignment on an object literal goes to the prototype
\* setter (which ignores a string) and creates no property.
Proto == <<"_", "_", "p", "r", "o", "t", "o", "_", "_">>

\* putObject: metadata[metaKey] = req.headers[header] for every header that
\* starts with x-amz-meta-.
MetadataOf(headers) ==
    LET isMeta(h) ==
           StartsWith(h[1], XAmzMeta) /\ Replace(h[1], XAmzMeta) # Proto
        metas == SelectSeq(headers, isMeta)
    IN [i \in DOMAIN metas |-> <<Replace(metas[i][1], XAmzMeta), metas[i][2]>>]

\* JSON.stringify(metadata): the text, as the sequence of its keys and
\* values ('{"k1":"v1","k2":"v2"}' without the punctuation).
RECURSIVE JsonStringify(_)
JsonStringify(object) ==
    IF object = <<>> THEN <<>>
    ELSE <<Head(object)[1], Head(object)[2]>> \o JsonStringify(Tail(object))

\* JSON.parse(text)
RECURSIVE JsonParse(_)
JsonParse(text) ==
    IF Len(text) < 2 THEN <<>>
    ELSE <<<<text[1], text[2]>>>> \o JsonParse(Tail(Tail(text)))

\* getObjectMapping's `metadata: object.metadata ? JSON.parse(...) : {}` and
\* the handlers' res.set(`x-amz-meta-${metaKey}`, ...) for each key of it:
\* the x-amz-meta-* headers of the response.
MetaHeaders(record) ==
    LET metadata == JsonParse(record.metadata)
    IN {<<XAmzMeta \o metadata[i][1], metadata[i][2]>> : i \in DOMAIN metadata}

\* WHERE bucket = ? AND key = ? AND is_deleted = 0
SelectLive(objs, b, k) ==
    {o \in objs : o.bucket = b /\ o.key = k /\ o.is_deleted = 0}

\* Mutant: the SELECT without "AND is_deleted = 0".
GetObjectMappingAnyRow(objs, b, k) ==
    IF {o \in objs : o.bucket = b /\ o.key = k} = {} THEN {Null}
    ELSE {o \in objs : o.bucket = b /\ o.key = k}

\* The values database.get may return for getObjectMapping's SELECT: the
\* statement has no ORDER BY, so with several live rows SQL leaves the row
\* it returns unspecified.
GetObjectMappingResults(objs, b, k) ==
    IF SelectLive(objs, b, k) = {} THEN {Null} ELSE SelectLive(objs, b, k)

\* Mutant: an upsert on (bucket, key) that brings the key's rows back to
\* life with the new receipt in place of adding a row.
InsertOrRevive(objs, nid, b, k, rid, t, metadata) ==
    IF \E o \in objs : o.bucket = b /\ o.key = k
    THEN {IF o.bucket = b /\ o.key = k
             THEN [o EXCEPT !.irys_id = rid, !.etag = Quoted(rid),
                            !.is_deleted = 0, !.updated_at = t,
                            !.metadata = metadata]
             ELSE o : o \in objs}
    ELSE objs \cup
         {[id |-> nid, bucket |-> b, key |-> k, irys_id |-> rid,
           etag |-> Quoted(rid), last_modified |-> t, updated_at |-> t,
           is_deleted |-> 0, metadata |-> metadata]}

\* INSERT OR REPLACE INTO objects (bucket, key, irys_id, ..., updated_at):
\* the only UNIQUE column besides the rowid is irys_id, so REPLACE removes
\* the rows with the same irys_id, never the rows with the same (bucket, key).
\* last_modified and is_deleted take their column defaults.  The columns
\* content_type, size and created_at are written and never read by a
\* statement's WHERE or ORDER BY; they are left out of the rows.
InsertOrReplace(objs, nid, b, k, rid, t, metadata) ==
    {o \in objs : o.irys_id # rid} \cup
    {[id |-> nid, bucket |-> b, key |-> k, irys_id |-> rid,
      etag |-> Quoted(rid), last_modified |-> t, updated_at |-> t,
      is_deleted |-> 0, metadata |-> metadata]}

\* Mutant: the UPDATE reaches one live row only (the one with the lowest
\* rowid), as with "AND id = ?".
UpdateDeletedOneRow(objs, b, k, t) ==
    {IF /\ o \in SelectLive(objs, b, k)
        /\ \A p \in SelectLive(objs, b, k) : o.id <= p.id
        THEN [o EXCEPT !.is_deleted = 1, !.updated_at = t]
        ELSE o : o \in objs}

\* Mutant: the UPDATE without "AND is_deleted = 0".
UpdateDeletedAnyRow(objs, b, k, t) ==
    {IF o.bucket = b /\ o.key = k
        THEN [o EXCEPT !.is_deleted = 1, !.updated_at = t]
        ELSE o : o \in objs}

\* Mutant: DELETE FROM objects in place of the UPDATE.
UpdateDeletedAsDelete(objs, b, k, t) ==
    {o \in objs : o \notin SelectLive(objs, b, k)}

\* Mutant: the UPDATE without "bucket = ? AND".
UpdateDeletedByKey(objs, b, k, t) ==
    {IF o.key = k /\ o.is_deleted = 0
        THEN [o EXCEPT !.is_deleted = 1, !.updated_at = t]
        ELSE o : o \in objs}

\* Mutant: the live rows stay and a deleted copy of each is added as history
\* (rowid negated), so that two rows carry one irys_id.
UpdateDeletedAsTombstone(objs, b, k, t) ==
    objs \cup {[o EXCEPT !.id = 0 - o.id, !.is_deleted = 1, !.updated_at = t] :
                 o \in SelectLive(objs, b, k)}

\* UPDATE objects SET is_deleted = 1, updated_at = CURRENT_TIMESTAMP
\* WHERE bucket = ? AND key = ? AND is_deleted = 0
UpdateDeleted(objs, b, k, t) ==
    {IF o \in SelectLive(objs, b, k)
        THEN [o EXCEPT !.is_deleted = 1, !.updated_at = t]
        ELSE o : o \in objs}

\* result.changes of that UPDATE
UpdateChanges(objs, b, k) == Cardinality(SelectLive(objs, b, k))

\* INSERT OR IGNORE INTO buckets (name) VALUES (?)
InsertOrIgnoreBucket(bks, name) ==
    IF \E x \in bks : x.name = name THEN bks
    ELSE bks \cup {[name |-> name, is_deleted |-> 0]}

\* The bucket names in ascending order.
BucketOrder == <<"b1", "b2">>

\* SELECT * FROM buckets WHERE is_deleted = 0 ORDER BY name (name is UNIQUE:
\* one row per name).
ListBuckets(bks) ==
    LET live(name) == \E x \in bks : x.name = name /\ x.is_deleted = 0
        names == SelectSeq(BucketOrder, live)
    IN [i \in DOMAIN names |-> CHOOSE x \in bks : x.name = names[i]]

\* SQLite's LIKE on byte strings: % (37) matches any run of bytes, _ (95)
\* any one byte, and the ASCII letters match without regard to case.
FoldCase(c) == IF c >= 65 /\ c <= 90 THEN c + 32 ELSE c

RECURSIVE Like(_, _)
Like(pattern, str) ==
    IF pattern = <<>> THEN str = <<>>
    ELSE IF Head(pattern) = 37
    THEN Like(Tail(pattern), str) \/ (str # <<>> /\ Like(pattern, Tail(str)))
    ELSE /\ str # <<>>
         /\ Head(pattern) = 95 \/ FoldCase(Head(pattern)) = FoldCase(Head(str))
         /\ Like(Tail(pattern), Tail(str))

\* listObjects' WHERE clause: bucket = ? AND is_deleted = 0, AND key LIKE
\* 'prefix%' when prefix is not empty, AND key > marker when marker is not.
ListMatches(objs, b, prefix, marker) ==
    {o \in objs :
        /\ o.bucket = b
        /\ o.is_deleted = 0
        /\ prefix # <<>> => Like(prefix \o <<37>>, o.key)
        /\ marker # <<>> => KeyLess(marker, o.key)}

\* ORDER BY key: the orders the rows may come in (rows with equal keys in
\* either order).
OrderByKey(rows) ==
    {s \in [1..Cardinality(rows) -> rows] :
        /\ \A i, j \in DOMAIN s : i # j => s[i] # s[j]
        /\ \A i, j \in DOMAIN s : i < j => ~KeyLess(s[j].key, s[i].key)}

\* LIMIT ?, added when maxKeys > 0.
Limit(s, maxKeys) ==
    IF maxKeys > 0 /\ Len(s) > maxKeys THEN SubSeq(s, 1, maxKeys) ELSE s

\* The arrays listObjects may return.
ListObjects(objs, b, prefix, marker, maxKeys) ==
    {Limit(s, maxKeys) : s \in OrderByKey(ListMatches(objs, b, prefix, marker))}

\* ---------------------------------------------------------- request slots
\* A response without ETag header.
NoHeader == <<>>

\* A request without query string (req.query of a request that is no
\* listing), and a response whose JSON body is not part of the model.
NoQuery == [prefix |-> <<>>, marker |-> <<>>, maxKeys |-> <<>>, delimiter |-> <<>>]
NoBody == [none |-> TRUE]

\* The caller that pages through a listing: the marker its first request
\* carried and the keys of the pages it has received since.
NoClient == [start |-> <<>>, collected |-> <<>>]

\* getStats before its two counts have arrived: have is the set of counts
\* that have.
NoStats == [objects |-> 0, buckets |-> 0, have |-> {}]

\* pc is the handler's position; method, bucket, key are the request's;
\* totalSize, chunks are handleRawUpload's; body, receipt, record, deleted are
\* the handler's locals (fileBuffer, irysReceipt.id, objectRecord, deleted);
\* status, etag, txid are the response sent (status 0: none yet; txid 0: no
\* x-irys-transaction-id header); resend counts the calls that tried to send
\* a second response.  query is req.query of a listing, json the JSON body
\* of the response, client the caller's paging state.  uploader is the
\* instance a call of getIrysUploader returned, log the console.error lines
\* written on behalf of the request (the text and the error printed with
\* it), uploads the number of calls of uploader.upload made for it.
\* xApiKey and apiKey are the x-api-key header and the apiKey query
\* parameter ("" when absent), path the health route asked for, stats and
\* balanceError the locals of the health handlers.  headers are the
\* request's headers as far as putObject's metadata loop may read them,
\* metadata is putObject's local, meta the x-amz-meta-* headers of the
\* response.
IdleReq ==
    [pc |-> "idle", method |-> "NONE", bucket |-> "", key |-> <<>>,
     totalSize |-> 0, chunks |-> <<>>,
     body |-> <<>>, receipt |-> 0, record |-> Null, deleted |-> FALSE,
     status |-> 0, etag |-> NoHeader, txid |-> 0, resend |-> 0,
     query |-> NoQuery, json |-> NoBody, client |-> NoClient,
     uploader |-> 0, log |-> {}, uploads |-> 0,
     xApiKey |-> "", apiKey |-> "", path |-> "", stats |-> NoStats,
     balanceError |-> FALSE, headers |-> <<>>, metadata |-> <<>>, meta |-> {},
     handle |-> 0]

\* res.status(code).json(...) / .send(): the first call sends the response;
\* a later call on the same response throws ERR_HTTP_HEADERS_SENT.
Respond(rq, code) ==
    IF rq.status = 0 THEN [rq EXCEPT !.status = code]
    ELSE [rq EXCEPT !.resend = @ + 1]

\* res.set({'ETag': ..., 'x-irys-transaction-id': ...}) followed by the
\* sending call; res.set on a response already sent throws as well.
RespondWith(rq, code, etag, txid) ==
    IF rq.status = 0
    THEN [rq EXCEPT !.status = code, !.etag = etag, !.txid = txid]
    ELSE [rq EXCEPT !.resend = @ + 1]

\* res.status(code).json(body) where the body matters to the caller.
RespondJson(rq, code, body) ==
    IF rq.status = 0 THEN [rq EXCEPT !.status = code, !.json = body]
    ELSE [rq EXCEPT !.resend = @ + 1]

\* console.error(line, error)
Logged(rq, line, error) == [rq EXCEPT !.log = @ \cup {<<line, error>>}]

\* { error: 'InternalError', message: ..., details: error.message }
InternalError(message, details) ==
    [error |-> "InternalError", message |-> message, details |-> details]

\* The name a handler logs under and the message of its 500.
HandlerOf(rq) ==
    CASE rq.method = "PUT" ->
           [line |-> "Error in putObject:", message |-> "Failed to upload object"]
      [] rq.method = "DELETE" ->
           [line |-> "Error in deleteObject:", message |-> "Failed to delete object"]
      [] rq.method = "HEAD" ->
           [line |-> "Error in headObject:",
            message |-> "Failed to get object metadata"]
      [] rq.method = "GET" /\ rq.key # <<>> ->
           [line |-> "Error in getObject:", message |-> "Failed to retrieve object"]
      [] rq.method = "GET" /\ rq.bucket = "" ->
           [line |-> "Error in listBuckets:", message |-> "Failed to list buckets"]
      [] OTHER ->
           [line |-> "Error in listObjects:", message |-> "Failed to list objects"]

\* The handler has returned: its locals are gone, the response stays.
Returned(rq) ==
    [rq EXCEPT !.pc = "done", !.totalSize = 0, !.chunks = <<>>, !.body = <<>>,
               !.receipt = 0, !.record = Null, !.stats = NoStats,
               !.balanceError = FALSE, !.metadata = <<>>]

\* `let irysUploader = null`: no uploader yet.
NoUploader == 0

\* initServer has awaited getIrysUploader() before the server listens: the
\* requests of a run find the uploader built.
Started == [uploader |-> 1, constructed |-> 1, devnet |-> {1}]

\* `let db = null`: no handle yet.
NoHandle == 0

\* The tables createTables creates.
Tables == {"objects", "buckets"}

\* initServer has awaited initDatabase() before the server listens: the
\* database functions of a run get the one handle, with the tables there.
Opened == [handle |-> 1, opened |-> 1, tables |-> Tables, indexes |-> {}]

\* A handler's catch: console.error('Error in ...:', error) and
\* res.status(500).json({ ..., details: error.message }), then the return.
Caught(rq, thrown) ==
    Returned(RespondJson(Logged(rq, HandlerOf(rq).line, thrown), 500,
                         InternalError(HandlerOf(rq).message, thrown)))

Init ==
    /\ objects = {}
    /\ buckets = {}
    /\ nextId = 1
    /\ now = 0
    /\ backend = {}
    /\ nextReceipt = 0
    /\ req = [r \in Req |-> IdleReq]
    /\ irys = Started
    /\ db = Opened

\* The wall clock reaches the next second.
Tick ==
    /\ now < MaxTime
    /\ now' = now + 1
    /\ UNCHANGED <<objects, buckets, nextId, backend, nextReceipt, req, irys, db>>

\* ------------------------------------------------------------ the router
\* The (bucket, key) pairs the requests of a run address.
Targets == Buckets \X Keys

\* routes/s3Routes.js, router.use('/:bucket', ...): GET, DELETE and HEAD
\* call their handler, which runs up to its first database statement.
Route(rq, method, b, k) ==
    LET arrived == [rq EXCEPT !.method = method, !.bucket = b, !.key = k]
    IN CASE method = "DELETE" -> [arrived EXCEPT !.pc = "delGet"]
         [] method = "HEAD" -> [arrived EXCEPT !.pc = "headGet"]
         [] method = "GET" -> [arrived EXCEPT !.pc = "getGet"]
         [] method = "PUT" -> [arrived EXCEPT !.pc = "reading"]

\* The same middleware for a path without key: GET calls listObjectsV1,
\* which runs up to `await listObjects(...)`.
RouteBucket(rq, b, query) ==
    [rq EXCEPT !.method = "GET", !.bucket = b, !.query = query,
               !.pc = "listAll"]

NewRequest(r) ==
    /\ req[r].pc = "idle"
    /\ \E method \in {"DELETE", "HEAD"}, t \in Targets :
          req' = [req EXCEPT ![r] = Route(@, method, t[1], t[2])]
    /\ UNCHANGED <<objects, buckets, nextId, now, backend, nextReceipt, irys, db>>

\* ------------------------------------------------------------- putObject
\* putObject from its entry to `await uploadToIrys(...)`: the parameter
\* check, then the call of uploadToIrys with the buffer, which calls
\* uploader.upload once.  The middleware's
\* chunks and totalSize are not read again.
PutObjectStart(rq, buffer) ==
    LET entered == [rq EXCEPT !.chunks = <<>>, !.totalSize = 0]
    IN IF rq.bucket = "" \/ rq.key = <<>>
       THEN Returned(Respond(entered, 400))
       ELSE [entered EXCEPT !.body = buffer, !.uploads = @ + 1,
                            !.metadata = MetadataOf(rq.headers),
                            !.pc = "uploading"]

\* handleRawUpload, req.on('data'): a chunk that takes the total over the
\* limit is answered 413 and not kept; the listeners stay attached.
OnData(rq, chunk) ==
    LET counted == [rq EXCEPT !.totalSize = @ + Len(chunk)]
    IN IF counted.totalSize > MaxFileSize
       THEN Respond(counted, 413)
       ELSE [counted EXCEPT !.chunks = Append(@, chunk)]

\* handleRawUpload, req.on('end'): req.body = Buffer.concat(chunks); next(),
\* and the router's callback calls putObject.
OnEnd(rq) == PutObjectStart(rq, BufferConcat(rq.chunks))

\* handleRawUpload, req.on('error'): 400 BadRequest; next is never called.
OnError(rq) == Returned(Respond(rq, 400))

\* The listeners applied to the events of a request stream, in order: the
\* 'data' events, then the closing 'end' or 'error'.
RECURSIVE OnStream(_, _, _)
OnStream(rq, datas, closing) ==
    IF datas # <<>> THEN OnStream(OnData(rq, Head(datas)), Tail(datas), closing)
    ELSE IF closing = "end" THEN OnEnd(rq)
    ELSE OnError(rq)

\* The chunks one 'data' event may deliver, and the streams of a request.
Chunks == UNION {[1..n -> Bytes] : n \in 1..MaxChunkLen}
Streams == UNION {[1..n -> Chunks] : n \in 0..MaxChunks}

\* A raw PUT: the router hands the request to handleRawUpload, which
\* attaches the listeners, and the body arrives.  The listeners touch only
\* the request's own chunks, totalSize and response, so the events of one
\* stream are taken in one step.
RawUpload(r) ==
    /\ req[r].pc = "idle"
    /\ \E t \in Targets, datas \in Streams, closing \in {"end", "error"} :
          req' = [req EXCEPT ![r] =
                    OnStream(Route(@, "PUT", t[1], t[2]), datas, closing)]
    /\ UNCHANGED <<objects, buckets, nextId, now, backend, nextReceipt, irys, db>>

\* upload.single('file'): multer buffers the file part; a file over
\* limits.fileSize ends in next(MulterError LIMIT_FILE_SIZE), which the
\* router passes on to errorHandler (413); otherwise req.file is set and the
\* router's callback calls putObject.
OnMultipart(rq, file) ==
    IF Len(file) > MaxFileSize
    THEN Returned(Respond(rq, 413))
    ELSE PutObjectStart(rq, file)

\* A multipart PUT: handleRawUpload hands the request to multer.
Multer(r) ==
    /\ req[r].pc = "idle"
    /\ \E t \in Targets, n \in 0..(MaxFileSize + 1) : \E file \in [1..n -> Bytes] :
          req' = [req EXCEPT ![r] =
                    OnMultipart(Route(@, "PUT", t[1], t[2]), file)]
    /\ UNCHANGED <<objects, buckets, nextId, now, backend, nextReceipt, irys, db>>

\* uploadToIrys resolves: the backend has accepted the payload and returned
\* a receipt with a fresh id; putObject goes on to storeObjectMapping.
\* fileBuffer stays in scope until putObject returns.
UploadOk(r) ==
    /\ req[r].pc = "uploading"
    /\ nextReceipt < MaxUploads
    /\ nextReceipt' = nextReceipt + 1
    /\ backend' = backend \cup {nextReceipt + 1}
    /\ req' = [req EXCEPT ![r].receipt = nextReceipt + 1,
                          ![r].pc = "ensureBucket"]
    /\ UNCHANGED <<objects, buckets, nextId, now, irys, db>>

\* Mutant: the failure of the upload is swallowed and putObject goes on to
\* storeObjectMapping with a receipt the backend never returned.
UploadFailSwallowed(r) ==
    /\ req[r].pc = "uploading"
    /\ nextReceipt < MaxUploads
    /\ nextReceipt' = nextReceipt + 1
    /\ req' = [req EXCEPT ![r].receipt = nextReceipt + 1,
                          ![r].pc = "ensureBucket"]
    /\ UNCHANGED <<objects, buckets, nextId, now, backend, irys, db>>

\* Mutant: the failed upload is answered as a success.
UploadFailAcknowledged(r) ==
    /\ req[r].pc = "uploading"
    /\ req' = [req EXCEPT ![r] = Returned(Respond(@, 200))]
    /\ UNCHANGED <<objects, buckets, nextId, now, backend, nextReceipt, irys, db>>

\* Mutant: uploadToIrys calls uploader.upload again after a failure.
UploadFailRetried(r) ==
    /\ req[r].pc = "uploading"
    /\ req[r].uploads <= MaxUploads
    /\ req' = [req EXCEPT ![r].uploads = @ + 1]
    /\ UNCHANGED <<objects, buckets, nextId, now, backend, nextReceipt, irys, db>>

\* The ways uploader.upload fails: the backend rejects the upload, or the
\* call times out and its outcome is unknown.
UploadErrors == {"rejected", "timeout"}

\* uploader.upload rejects: uploadToIrys logs the error and throws 'Failed
\* to upload to Irys' whatever the error was; putObject's catch answers 500
\* and storeObjectMapping is not called.
UploadFail(r) ==
    /\ req[r].pc = "uploading"
    /\ \E error \in UploadErrors :
          req' = [req EXCEPT ![r] =
                    Caught(Logged(@, "Error uploading to Irys:", error),
                           "Failed to upload to Irys")]
    /\ UNCHANGED <<objects, buckets, nextId, now, backend, nextReceipt, irys, db>>

\* storeObjectMapping, `await ensureBucketExists(bucket)`.
EnsureBucket(r) ==
    /\ req[r].pc = "ensureBucket"
    /\ buckets' = InsertOrIgnoreBucket(buckets, req[r].bucket)
    /\ req' = [req EXCEPT ![r].pc = "insert"]
    /\ UNCHANGED <<objects, nextId, now, backend, nextReceipt, irys, db>>

\* storeObjectMapping, `await database.run('INSERT OR REPLACE ...')`.
Insert(r) ==
    /\ req[r].pc = "insert"
    /\ objects' = InsertOrReplace(objects, nextId, req[r].bucket, req[r].key,
                                  req[r].receipt, now,
                                  JsonStringify(req[r].metadata))
    /\ nextId' = nextId + 1
    /\ req' = [req EXCEPT ![r].pc = "select"]
    /\ UNCHANGED <<buckets, now, backend, nextReceipt, irys, db>>

\* putObject after storeObjectMapping returned objectRecord: res.set and
\* res.status(200).json.  Reading objectRecord.etag of null throws, and so
\* does res.set on a response already sent; the catch then answers 500.
PutObjectRespond(rq, record) ==
    IF record = Null THEN Caught(rq, "TypeError")
    ELSE IF rq.status # 0
    THEN Caught(RespondWith(rq, 200, record.etag, rq.receipt),
                "ERR_HTTP_HEADERS_SENT")
    ELSE Returned(RespondWith(rq, 200, record.etag, rq.receipt))

\* storeObjectMapping, `return await getObjectMapping(bucket, key)`, and the
\* rest of putObject.
Select(r) ==
    /\ req[r].pc = "select"
    /\ \E record \in GetObjectMappingResults(objects, req[r].bucket, req[r].key) :
          req' = [req EXCEPT ![r] = PutObjectRespond(@, record)]
    /\ UNCHANGED <<objects, buckets, nextId, now, backend, nextReceipt, irys, db>>

\* ----------------------------------------------------------- deleteObject
\* Mutant: a key without a live record is answered 404 NoSuchKey.
OnDeleteLookupNoSuchKey(rq, record) ==
    IF record = Null
    THEN Returned(Respond(rq, 404))
    ELSE [rq EXCEPT !.record = record, !.pc = "delUpdate"]

\* deleteObject after `await getObjectMapping(bucket, fullKey)`: 204 when
\* there is no record, else on to deleteObjectMapping.
OnDeleteLookup(rq, record) ==
    IF record = Null
    THEN Returned(Respond(rq, 204))
    ELSE [rq EXCEPT !.record = record, !.pc = "delUpdate"]

DelGet(r) ==
    /\ req[r].pc = "delGet"
    /\ \E record \in GetObjectMappingResults(objects, req[r].bucket, req[r].key) :
          req' = [req EXCEPT ![r] = OnDeleteLookup(@, record)]
    /\ UNCHANGED <<objects, buckets, nextId, now, backend, nextReceipt, irys, db>>

\* deleteObject after deleteObjectMapping returned `deleted`.
OnDeleted(rq, deleted) ==
    Returned(RespondWith([rq EXCEPT !.deleted = deleted], 204, NoHeader,
                         rq.record.irys_id))

\* deleteObject, `await deleteObjectMapping(bucket, fullKey)` and the 204.
DelUpdate(r) ==
    /\ req[r].pc = "delUpdate"
    /\ objects' = UpdateDeleted(objects, req[r].bucket, req[r].key, now)
    /\ req' = [req EXCEPT ![r] = OnDeleted(@,
                    UpdateChanges(objects, req[r].bucket, req[r].key) > 0)]
    /\ UNCHANGED <<buckets, nextId, now, backend, nextReceipt, irys, db>>

\* ------------------------------------------------------------- headObject
\* { error: 'NoSuchKey', message: 'The specified key does not exist' }
NoSuchKey ==
    [error |-> "NoSuchKey", message |-> "The specified key does not exist"]

OnHeadLookup(rq, record) ==
    IF record = Null THEN Returned(RespondJson(rq, 404, NoSuchKey))
    ELSE Returned(RespondWith([rq EXCEPT !.meta = MetaHeaders(record)],
                              200, record.etag, record.irys_id))

HeadGet(r) ==
    /\ req[r].pc = "headGet"
    /\ \E record \in GetObjectMappingResults(objects, req[r].bucket, req[r].key) :
          req' = [req EXCEPT ![r] = OnHeadLookup(@, record)]
    /\ UNCHANGED <<objects, buckets, nextId, now, backend, nextReceipt, irys, db>>

\* -------------------------------------------------------------- getObject
\* { error: 'NoSuchKey', message: '... does not exist on Irys' }
NoSuchKeyOnIrys ==
    [error |-> "NoSuchKey",
     message |-> "The specified key does not exist on Irys"]

\* getObject after `await getObjectMapping(bucket, fullKey)`: 404 when there
\* is no record, else on to the gateway.
OnGetLookup(rq, record) ==
    IF record = Null THEN Returned(RespondJson(rq, 404, NoSuchKey))
    ELSE [rq EXCEPT !.record = record, !.pc = "fetching"]

GetGet(r) ==
    /\ req[r].pc = "getGet"
    /\ \E record \in GetObjectMappingResults(objects, req[r].bucket, req[r].key) :
          req' = [req EXCEPT ![r] = OnGetLookup(@, record)]
    /\ UNCHANGED <<objects, buckets, nextId, now, backend, nextReceipt, irys, db>>

\* `await axios.get(gatewayUrl, ...)` resolves: res.set of the record's
\* headers and the gateway's stream piped into the response.
GatewayOk(r) ==
    /\ req[r].pc = "fetching"
    /\ req' = [req EXCEPT ![r] =
                  Returned(RespondWith(
                     [@ EXCEPT !.meta = MetaHeaders(req[r].record)],
                     200, @.record.etag, @.record.irys_id))]
    /\ UNCHANGED <<objects, buckets, nextId, now, backend, nextReceipt, irys, db>>

\* Mutant: a 404 of the gateway makes getObject soft-delete the record.
GatewayFailForgets(r) ==
    /\ req[r].pc = "fetching"
    /\ objects' = UpdateDeleted(objects, req[r].bucket, req[r].key, now)
    /\ req' = [req EXCEPT ![r] = Returned(RespondJson(@, 404, NoSuchKeyOnIrys))]
    /\ UNCHANGED <<buckets, nextId, now, backend, nextReceipt, irys, db>>

\* axios.get rejects: a 404 of the gateway is answered 404, every other
\* failure (another status, or the 30 s timeout, which has no response:
\* status 0 here) is rethrown and answered 500 by the outer catch.
GatewayFail(r) ==
    /\ req[r].pc = "fetching"
    /\ \E gatewayStatus \in {404, 500, 0} :
          req' = [req EXCEPT ![r] =
                    IF gatewayStatus = 404
                    THEN Returned(RespondJson(
                            Logged(@, "Error fetching from Irys Gateway:", "404"),
                            404, NoSuchKeyOnIrys))
                    ELSE Caught(Logged(@, "Error fetching from Irys Gateway:",
                                       IF gatewayStatus = 0 THEN "timeout"
                                       ELSE "gateway"),
                                IF gatewayStatus = 0 THEN "timeout" ELSE "gateway")]
    /\ UNCHANGED <<objects, buckets, nextId, now, backend, nextReceipt, irys, db>>

\* ---------------------------------------------------------- listObjectsV1
\* JavaScript numbers as far as the listing needs them: NaN or an integer.
NaN == [nan |-> TRUE, val |-> 0]
Num(n) == [nan |-> FALSE, val |-> n]

\* parseInt(string, 10): an optional sign, then the leading decimal digits;
\* NaN when there is none.  A string is the sequence of its characters.
Digits == <<"0", "1", "2", "3", "4", "5", "6", "7", "8", "9">>
IsDigit(c) == \E i \in DOMAIN Digits : Digits[i] = c
DigitValue(c) == (CHOOSE i \in DOMAIN Digits : Digits[i] = c) - 1

RECURSIVE ParseDigits(_, _)
ParseDigits(str, acc) ==
    IF str = <<>> \/ ~IsDigit(Head(str)) THEN acc
    ELSE ParseDigits(Tail(str), acc * 10 + DigitValue(Head(str)))

ParseInt(str) ==
    LET signed == str # <<>> /\ Head(str) \in {"-", "+"}
        digits == IF signed THEN Tail(str) ELSE str
    IN IF digits = <<>> \/ ~IsDigit(Head(digits)) THEN NaN
       ELSE IF signed /\ Head(str) = "-" THEN Num(0 - ParseDigits(digits, 0))
       ELSE Num(ParseDigits(digits, 0))

\* Math.min(x, n), x + n and n > x: NaN makes the first two NaN and the
\* comparison false.
MathMin(x, n) == IF x.nan THEN NaN ELSE IF x.val < n THEN x ELSE Num(n)
Plus(x, n) == IF x.nan THEN NaN ELSE Num(x.val + n)
GreaterThan(n, x) == ~x.nan /\ n > x.val

\* array.slice(0, end): a negative end counts from the end of the array.
Slice(array, end) ==
    LET stop == IF end < 0 THEN Len(array) + end ELSE end
    IN IF stop <= 0 THEN <<>>
       ELSE IF stop >= Len(array) THEN array
       ELSE SubSeq(array, 1, stop)

\* const maxKeys = Math.min(parseInt(maxKeysParam, 10), 1000)
MaxKeysOf(query) == MathMin(ParseInt(query.maxKeys), 1000)

\* The options listObjectsV1 passes to listObjects.
ListOptions(query) ==
    [prefix |-> query.prefix, marker |-> query.marker,
     maxKeys |-> Plus(MaxKeysOf(query), 1), delimiter |-> query.delimiter]

\* Mutant: listObjects hides the keys that hold the delimiter after the
\* prefix (they would be rolled up into common prefixes).
ListObjectsRolledUp(objs, b, options) ==
    {SelectSeq(s, LAMBDA o :
        \/ options.delimiter = <<>>
        \/ \A i \in DOMAIN o.key :
              i <= Len(options.prefix) \/ <<o.key[i]>> # options.delimiter) :
       s \in ListObjects(objs, b, options.prefix, options.marker,
                         IF options.maxKeys.nan THEN 0 ELSE options.maxKeys.val)}

\* listObjects(bucket, options): options.delimiter is read and never used;
\* `maxKeys > 0` is false for NaN as it is for 0, and no LIMIT is added.
ListObjectsWith(objs, b, options) ==
    ListObjects(objs, b, options.prefix, options.marker,
                IF options.maxKeys.nan THEN 0 ELSE options.maxKeys.val)

\* Contents: returnObjects.map(obj => ({ Key, ETag, ... }))
Contents(returnObjects) ==
    [i \in DOMAIN returnObjects |->
        [Key |-> returnObjects[i].key, ETag |-> returnObjects[i].etag]]

\* Mutant: isTruncated = objects.length >= maxKeys.
IsTruncatedAtLimit(rows, maxKeys) == ~maxKeys.nan /\ Len(rows) >= maxKeys.val

\* const isTruncated = objects.length > maxKeys
IsTruncated(rows, maxKeys) == GreaterThan(Len(rows), maxKeys)

\* listObjectsV1 after `await listObjects(...)` returned rows: the page, the
\* truncation flag and the marker.  Reading .key of
\* returnObjects[returnObjects.length - 1] throws when the page is empty and
\* truncated; the catch answers 500.
ListObjectsV1(rq, rows) ==
    LET maxKeys == MaxKeysOf(rq.query)
        isTruncated == IsTruncated(rows, maxKeys)
        returnObjects == IF isTruncated THEN Slice(rows, maxKeys.val) ELSE rows
        response ==
            [Name |-> rq.bucket, Prefix |-> rq.query.prefix,
             Marker |-> rq.query.marker, MaxKeys |-> maxKeys,
             IsTruncated |-> isTruncated, Contents |-> Contents(returnObjects)]
    IN IF isTruncated /\ returnObjects = <<>>
       THEN Caught(rq, "TypeError")
       ELSE IF isTruncated
       THEN Returned(RespondJson(rq, 200,
               [NextMarker |-> returnObjects[Len(returnObjects)].key] @@ response))
       ELSE Returned(RespondJson(rq, 200, response))

\* The keys of the page a listing was answered with.
PageKeys(rq) ==
    IF rq.status = 200
    THEN [i \in DOMAIN rq.json.Contents |-> rq.json.Contents[i].Key]
    ELSE <<>>

\* The caller receives the response and adds the page to what it has.
Received(rq) == [rq EXCEPT !.client.collected = @ \o PageKeys(rq)]

\* listObjectsV1, `await listObjects(bucket, {...})` and the response.
ListAll(r) ==
    /\ req[r].pc = "listAll"
    /\ \E rows \in ListObjectsWith(objects, req[r].bucket,
                                    ListOptions(req[r].query)) :
          req' = [req EXCEPT ![r] = Received(ListObjectsV1(@, rows))]
    /\ UNCHANGED <<objects, buckets, nextId, now, backend, nextReceipt, irys, db>>

\* -------------------------------------------------------- listAllBuckets
\* routes/s3Routes.js, router.get('/', listAllBuckets): the handler runs up
\* to `await listBuckets()`.
ListBucketsRequest(r) ==
    /\ req[r].pc = "idle"
    /\ req' = [req EXCEPT ![r] = [@ EXCEPT !.method = "GET",
                                           !.pc = "listBuckets"]]
    /\ UNCHANGED <<objects, buckets, nextId, now, backend, nextReceipt, irys, db>>

\* The body of listAllBuckets' 200: the Name of every row listBuckets
\* returned, in its order (CreationDate is left out).
ListAllBucketsResult(rows) ==
    [Owner |-> "irys-user",
     Buckets |-> [i \in DOMAIN rows |-> [Name |-> rows[i].name]]]

\* listAllBuckets, `await listBuckets()` and the response.
ListAllBuckets(r) ==
    /\ req[r].pc = "listBuckets"
    /\ req' = [req EXCEPT ![r] =
                 Returned(RespondJson(@, 200,
                                      ListAllBucketsResult(ListBuckets(buckets))))]
    /\ UNCHANGED <<objects, buckets, nextId, now, backend, nextReceipt, irys, db>>

\* --------------------------------------------------------------- failures
\* A database statement rejects (storage I/O): the database function rethrows
\* and the handler's catch answers 500; the statement changes nothing.
DbSteps ==
    {"ensureBucket", "insert", "select", "delGet", "delUpdate", "headGet",
     "getGet", "listAll", "listBuckets"}

\* The lines the database functions log when the statement of a step
\* rejects, innermost first: the function's own catch and, inside
\* storeObjectMapping, that of storeObjectMapping.
DbLogged(rq) ==
    CASE rq.pc = "ensureBucket" ->
           Logged(Logged(rq, "Error ensuring bucket exists:", "SQLITE_ERROR"),
                  "Error storing object mapping:", "Failed to ensure bucket exists")
      [] rq.pc = "insert" ->
           Logged(rq, "Error storing object mapping:", "SQLITE_ERROR")
      [] rq.pc = "select" ->
           Logged(Logged(rq, "Error getting object mapping:", "SQLITE_ERROR"),
                  "Error storing object mapping:", "Failed to get object mapping")
      [] rq.pc = "delUpdate" ->
           Logged(rq, "Error deleting object mapping:", "SQLITE_ERROR")
      [] rq.pc = "listAll" ->
           Logged(rq, "Error listing objects:", "SQLITE_ERROR")
      [] rq.pc = "listBuckets" ->
           Logged(rq, "Error listing buckets:", "SQLITE_ERROR")
      [] OTHER ->
           Logged(rq, "Error getting object mapping:", "SQLITE_ERROR")

\* Mutant: storeObjectMapping rethrows under the message of a failed upload.
DbThrownAsUpload(rq) == "Failed to upload to Irys"

\* The message of the Error the database function of a step throws.
DbThrown(rq) ==
    CASE rq.pc \in {"ensureBucket", "insert", "select"} ->
           "Failed to store object mapping"
      [] rq.pc = "delUpdate" -> "Failed to delete object mapping"
      [] rq.pc = "listAll" -> "Failed to list objects"
      [] rq.pc = "listBuckets" -> "Failed to list buckets"
      [] OTHER -> "Failed to get object mapping"

DbError(r) ==
    /\ req[r].pc \in DbSteps
    /\ req' = [req EXCEPT ![r] = Caught(DbLogged(@), DbThrown(@))]
    /\ UNCHANGED <<objects, buckets, nextId, now, backend, nextReceipt, irys, db>>

\* The request is over; its slot serves the next request.
Finish(r) ==
    /\ req[r].pc = "done"
    /\ req' = [req EXCEPT ![r] = IdleReq]
    /\ UNCHANGED <<objects, buckets, nextId, now, backend, nextReceipt, irys, db>>

Next ==
    \/ Tick
    \/ \E r \in Req :
          \/ NewRequest(r)
          \/ RawUpload(r)
          \/ Multer(r)
          \/ UploadOk(r)
          \/ UploadFail(r)
          \/ EnsureBucket(r)
          \/ Insert(r)
          \/ Select(r)
          \/ DelGet(r)
          \/ DelUpdate(r)
          \/ HeadGet(r)
          \/ ListBucketsRequest(r)
          \/ ListAllBuckets(r)
          \/ DbError(r)
          \/ Finish(r)

Spec == Init /\ [][Next]_vars

\* --------------------------------------------------------- irysClient.js
\* The callers of getIrysUploader.
Callers == 1..MaxCallers

\* The module as loaded, before any call: `let irysUploader = null`.
UploaderInit ==
    /\ objects = {}
    /\ buckets = {}
    /\ nextId = 1
    /\ now = 0
    /\ backend = {}
    /\ nextReceipt = 0
    /\ req = [r \in Callers |-> IdleReq]
    /\ irys = [uploader |-> NoUploader, constructed |-> 0, devnet |-> {}]
    /\ db = Opened

\* A caller (initServer, uploadToIrys, getBalance, fundAccount) calls
\* getIrysUploader: the cached instance is returned at once; without one the
\* call goes on to `await Uploader(Ethereum).withWallet(...)`.
GetIrysUploader(r) ==
    /\ req[r].pc = "idle"
    /\ req' = [req EXCEPT ![r] =
                  IF irys.uploader # NoUploader
                  THEN Returned([@ EXCEPT !.method = "CALL",
                                          !.uploader = irys.uploader])
                  ELSE [@ EXCEPT !.method = "CALL", !.pc = "constructing"]]
    /\ UNCHANGED <<objects, buckets, nextId, now, backend, nextReceipt, irys, db>>

\* config.irys.network of a run without IRYS_NETWORK.
Network == "devnet"

\* The await resolves with a new uploader, which is assigned to
\* irysUploader at once.  With network 'devnet' irysUploader.devnet() is
\* called on it next, in the same turn: it returns the uploader switched to
\* devnet, or throws, and then the catch throws 'Failed to initialize Irys
\* uploader' while irysUploader keeps the uploader assigned before.
UploaderReady(r) ==
    /\ req[r].pc = "constructing"
    /\ irys.constructed < MaxInstances
    /\ \E thrown \in BOOLEAN :
          LET built == irys.constructed + 1
          IN IF Network = "devnet" /\ thrown
             THEN /\ irys' = [irys EXCEPT !.uploader = built,
                                          !.constructed = built]
                  /\ req' = [req EXCEPT ![r] =
                               Returned(Logged(@, "Error initializing Irys uploader:",
                                               "devnet"))]
             ELSE /\ irys' = [uploader |-> built, constructed |-> built,
                              devnet |-> IF Network = "devnet"
                                         THEN irys.devnet \cup {built}
                                         ELSE irys.devnet]
                  /\ req' = [req EXCEPT ![r] =
                               Returned([@ EXCEPT !.uploader = built])]
    /\ UNCHANGED <<objects, buckets, nextId, now, backend, nextReceipt, db>>

\* The await rejects: 'Failed to initialize Irys uploader' is thrown.
UploaderFailed(r) ==
    /\ req[r].pc = "constructing"
    /\ req' = [req EXCEPT ![r] =
                  Returned(Logged(@, "Error initializing Irys uploader:",
                                  "rejected"))]
    /\ UNCHANGED <<objects, buckets, nextId, now, backend, nextReceipt, irys, db>>

UploaderNext ==
    \E r \in Callers :
       \/ GetIrysUploader(r)
       \/ UploaderReady(r)
       \/ UploaderFailed(r)
       \/ Finish(r)

UploaderSpec == UploaderInit /\ [][UploaderNext]_vars

\* ------------------------------------------------------------ initDatabase
\* Overlapping calls of initDatabase() on a module whose db is still null.
\* A caller's pc names the statement whose await it is suspended in.

\* createIndexes, in the order of the loop.
CreateIndexes ==
    <<"idx_bucket_key", "idx_irys_id", "idx_bucket_name", "idx_last_modified">>

\* The module as loaded, before any call: `let db = null`, and a database
\* file without tables.
DbInit ==
    /\ objects = {}
    /\ buckets = {}
    /\ nextId = 1
    /\ now = 0
    /\ backend = {}
    /\ nextReceipt = 0
    /\ req = [r \in Callers |-> IdleReq]
    /\ irys = Started
    /\ db = [handle |-> NoHandle, opened |-> 0, tables |-> {}, indexes |-> {}]

\* initDatabase() up to its first await: a handle in db is returned at
\* once; otherwise fs.mkdir is started.
InitDatabase(r) ==
    /\ req[r].pc = "idle"
    /\ req' = [req EXCEPT ![r] =
                  IF db.handle # NoHandle
                  THEN Returned([@ EXCEPT !.method = "CALL",
                                          !.handle = db.handle])
                  ELSE [@ EXCEPT !.method = "CALL", !.pc = "mkdir"]]
    /\ UNCHANGED <<objects, buckets, nextId, now, backend, nextReceipt, irys, db>>

\* fs.mkdir resolves: open() is started.
Mkdir(r) ==
    /\ req[r].pc = "mkdir"
    /\ req' = [req EXCEPT ![r].pc = "open"]
    /\ UNCHANGED <<objects, buckets, nextId, now, backend, nextReceipt, irys, db>>

\* open() resolves with a new connection, which is assigned to db;
\* createTables() starts `db.exec(createObjectsTable)`.
Open(r) ==
    /\ req[r].pc = "open"
    /\ db.opened < MaxConnections
    /\ db' = [db EXCEPT !.handle = db.opened + 1, !.opened = db.opened + 1]
    /\ req' = [req EXCEPT ![r].pc = "createObjectsTable"]
    /\ UNCHANGED <<objects, buckets, nextId, now, backend, nextReceipt, irys>>

\* `await db.exec(createObjectsTable)` resolves: the table exists (CREATE
\* TABLE IF NOT EXISTS); `db.exec(createBucketsTable)` is started.
CreateObjectsTable(r) ==
    /\ req[r].pc = "createObjectsTable"
    /\ db' = [db EXCEPT !.tables = @ \cup {"objects"}]
    /\ req' = [req EXCEPT ![r].pc = "createBucketsTable"]
    /\ UNCHANGED <<objects, buckets, nextId, now, backend, nextReceipt, irys>>

\* `await db.exec(createBucketsTable)` resolves; the loop starts the first
\* index.
CreateBucketsTable(r) ==
    /\ req[r].pc = "createBucketsTable"
    /\ db' = [db EXCEPT !.tables = @ \cup {"buckets"}]
    /\ req' = [req EXCEPT ![r].pc = CreateIndexes[1]]
    /\ UNCHANGED <<objects, buckets, nextId, now, backend, nextReceipt, irys>>

\* `await db.exec(indexSql)` resolves: the loop starts the next index, or
\* after the last one createTables returns and initDatabase returns db, the
\* module variable as it is then.
CreateIndex(r) ==
    \E i \in 1..Len(CreateIndexes) :
       /\ req[r].pc = CreateIndexes[i]
       /\ db' = [db EXCEPT !.indexes = @ \cup {CreateIndexes[i]}]
       /\ req' = [req EXCEPT ![r] =
                     IF i < Len(CreateIndexes)
                     THEN [@ EXCEPT !.pc = CreateIndexes[i + 1]]
                     ELSE Returned([@ EXCEPT !.handle = db.handle])]
       /\ UNCHANGED <<objects, buckets, nextId, now, backend, nextReceipt, irys>>

\* The statements of initDatabase and createTables that are awaited.
DbInitAwaits ==
    {"mkdir", "open", "createObjectsTable", "createBucketsTable"}
        \cup {CreateIndexes[i] : i \in 1..Len(CreateIndexes)}

\* The awaited call rejects: the catch logs 'Error initializing database:'
\* and throws 'Failed to initialize database'.  db is left as it is: null
\* when mkdir or open failed, the opened connection when a statement of
\* createTables failed.
InitDatabaseFailed(r) ==
    /\ req[r].pc \in DbInitAwaits
    /\ req' = [req EXCEPT ![r] =
                  Returned(Logged(@, "Error initializing database:", @.pc))]
    /\ UNCHANGED <<objects, buckets, nextId, now, backend, nextReceipt, irys, db>>

DbInitNext ==
    \E r \in Callers :
       \/ InitDatabase(r)
       \/ Mkdir(r)
       \/ Open(r)
       \/ CreateObjectsTable(r)
       \/ CreateBucketsTable(r)
       \/ CreateIndex(r)
       \/ InitDatabaseFailed(r)
       \/ Finish(r)

DbInitSpec == DbInit /\ [][DbInitNext]_vars

\* ------------------------------------------------------- read-only runs
\* The stores a read-only run starts from: rows 1..n of bucket b1 as n
\* uploads and later deletes leave them, row i with receipt id i.  A delete
\* marks every live row of its key, so a deleted row has no live row of the
\* same key before it.
StoreOf(n, rows) ==
    {[id |-> i, bucket |-> "b1", key |-> rows[i][1], irys_id |-> i,
      etag |-> Quoted(i), last_modified |-> 0, updated_at |-> 0,
      is_deleted |-> rows[i][2], metadata |-> JsonStringify(<<>>)] :
        i \in 1..n}

ReadInit ==
    /\ \E n \in 0..MaxRows : \E rows \in [1..n -> ListKeys \X {0, 1}] :
          /\ \A i, j \in 1..n :
                (i < j /\ rows[i][1] = rows[j][1] /\ rows[j][2] = 1)
                   => rows[i][2] = 1
          /\ objects = StoreOf(n, rows)
          /\ buckets = IF n = 0 THEN {} ELSE InsertOrIgnoreBucket({}, "b1")
          /\ nextId = n + 1
          /\ backend = 1..n
          /\ nextReceipt = n
    /\ now = 0
    /\ req = [r \in Req |-> IdleReq]
    /\ irys = Started
    /\ db = Opened

\* The query strings of the listings of a run: prefix and marker are byte
\* strings (65 = "A", 99 = "c"), max-keys is the parameter as sent ('1000'
\* when absent), delimiter is empty or "/".
QueryPrefixes == {<<>>, <<97>>, <<65>>, <<99>>}
QueryMarkers == {<<>>, <<97>>, <<98>>}
QueryMaxKeys ==
    {<<"1", "0", "0", "0">>, <<"0">>, <<"1">>, <<"2">>, <<"-", "1">>, <<"x">>,
     <<"1", "0", "0", "1">>}
QueryDelimiters == {<<>>, <<47>>}
Queries ==
    [prefix : QueryPrefixes, marker : QueryMarkers, maxKeys : QueryMaxKeys,
     delimiter : QueryDelimiters]

\* GET or HEAD of an object.
ReadObject(r) ==
    /\ req[r].pc = "idle"
    /\ \E method \in {"GET", "HEAD"}, b \in Buckets, k \in ListKeys :
          req' = [req EXCEPT ![r] = Route(@, method, b, k)]
    /\ UNCHANGED <<objects, buckets, nextId, now, backend, nextReceipt, irys, db>>

\* GET of a bucket: the first request of a caller's listing.
ListBucket(r) ==
    /\ req[r].pc = "idle"
    /\ \E b \in Buckets, query \in Queries :
          req' = [req EXCEPT ![r] =
                    [RouteBucket(@, b, query) EXCEPT
                        !.client = [start |-> query.marker, collected |-> <<>>]]]
    /\ UNCHANGED <<objects, buckets, nextId, now, backend, nextReceipt, irys, db>>

\* The caller of a truncated listing asks for the next page: the same
\* request with NextMarker as marker.
NextPage(r) ==
    /\ req[r].pc = "done"
    /\ req[r].method = "GET" /\ req[r].key = <<>>
    /\ req[r].status = 200
    /\ req[r].json.IsTruncated
    /\ req' = [req EXCEPT ![r] =
                  [RouteBucket(IdleReq, @.bucket,
                               [@.query EXCEPT !.marker = req[r].json.NextMarker])
                      EXCEPT !.client = req[r].client]]
    /\ UNCHANGED <<objects, buckets, nextId, now, backend, nextReceipt, irys, db>>

ReadNext ==
    \E r \in ReadReq :
       \/ ReadObject(r)
       \/ ListBucket(r)
       \/ NextPage(r)
       \/ GetGet(r)
       \/ GatewayOk(r)
       \/ GatewayFail(r)
       \/ HeadGet(r)
       \/ ListAll(r)
       \/ DbError(r)
       \/ Finish(r)

ReadSpec == ReadInit /\ [][ReadNext]_vars

\* ------------------------------------------- runs with API_KEY configured
\* config.api.apiKey of a server started with API_KEY set.
ApiKey == "secret"

\* What a request may send as x-api-key header or apiKey parameter.
ProvidedKeys == {"", "wrong", ApiKey}

\* Mutant: a request that provides no key passes.
AuthenticateApiKeyIfProvided(xApiKey, apiKey) ==
    LET providedKey == IF xApiKey # "" THEN xApiKey ELSE apiKey
    IN providedKey = "" \/ providedKey = ApiKey

\* authenticateApiKey: TRUE when it calls next().
AuthenticateApiKey(xApiKey, apiKey) ==
    IF ApiKey = "" THEN TRUE
    ELSE LET providedKey == IF xApiKey # "" THEN xApiKey ELSE apiKey
         IN ~(providedKey = "" \/ providedKey # ApiKey)

\* { error: 'Unauthorized', message: 'Invalid or missing API key' }
Unauthorized ==
    [error |-> "Unauthorized", message |-> "Invalid or missing API key"]

\* The query string of a listing without parameters.
PlainQuery ==
    [prefix |-> <<>>, marker |-> <<>>, maxKeys |-> <<"1", "0", "0", "0">>,
     delimiter |-> <<>>]

\* Where the S3 router takes a request that has passed authenticateApiKey:
\* list buckets, list, put (raw), get, head, delete, each up to the first
\* await of its handler.
S3Routes(rq) ==
    {[rq EXCEPT !.method = "GET", !.pc = "listBuckets"]}
    \cup {RouteBucket(rq, b, PlainQuery) : b \in Buckets}
    \cup {Route(rq, method, t[1], t[2]) :
             method \in {"GET", "HEAD", "DELETE"}, t \in Targets}
    \cup {OnStream(Route(rq, "PUT", t[1], t[2]), datas, "end") :
             t \in Targets, datas \in Streams}

\* router.use(authenticateApiKey) ahead of every S3 route: a request whose
\* key does not pass is answered 401 there and the router goes no further.
S3Request(r) ==
    /\ req[r].pc = "idle"
    /\ \E xApiKey \in ProvidedKeys, apiKey \in ProvidedKeys :
          LET arrived == [req[r] EXCEPT !.xApiKey = xApiKey, !.apiKey = apiKey]
          IN \E routed \in S3Routes(arrived) :
                req' = [req EXCEPT ![r] =
                          IF AuthenticateApiKey(xApiKey, apiKey)
                          THEN routed
                          ELSE Returned(RespondJson(
                                  [arrived EXCEPT !.method = routed.method],
                                  401, Unauthorized))]
    /\ UNCHANGED <<objects, buckets, nextId, now, backend, nextReceipt, irys, db>>

\* server.js mounts healthRoutes ahead of the S3 router: GET /health is
\* answered by its handler, whatever key the request carries.
HealthRequest(r) ==
    /\ req[r].pc = "idle"
    /\ req' = [req EXCEPT ![r] =
                 Returned(RespondJson([@ EXCEPT !.method = "GET",
                                                !.path = "/health"],
                                      200, [status |-> "healthy"]))]
    /\ UNCHANGED <<objects, buckets, nextId, now, backend, nextReceipt, irys, db>>

\* GET /status up to `await getBalance()`.
StatusRequest(r) ==
    /\ req[r].pc = "idle"
    /\ req' = [req EXCEPT ![r] = [@ EXCEPT !.method = "GET", !.path = "/status",
                                           !.pc = "getBalance"]]
    /\ UNCHANGED <<objects, buckets, nextId, now, backend, nextReceipt, irys, db>>

\* getBalance resolves or throws 'Failed to get balance'; the handler keeps
\* the error and goes on to `await getStats()`.
GetBalance(r) ==
    /\ req[r].pc = "getBalance"
    /\ \E failed \in BOOLEAN :
          req' = [req EXCEPT ![r] =
                    [(IF failed
                      THEN Logged(@, "Error getting balance:", "rejected")
                      ELSE @)
                       EXCEPT !.balanceError = failed, !.pc = "getStats"]]
    /\ UNCHANGED <<objects, buckets, nextId, now, backend, nextReceipt, irys, db>>

\* GET /metrics up to `await getStats()`.
MetricsRequest(r) ==
    /\ req[r].pc = "idle"
    /\ req' = [req EXCEPT ![r] = [@ EXCEPT !.method = "GET", !.path = "/metrics",
                                           !.pc = "getStats"]]
    /\ UNCHANGED <<objects, buckets, nextId, now, backend, nextReceipt, irys, db>>

\* Mutant: COUNT(*) without the is_deleted = 0 filter.
CountAll(rows) == Cardinality(rows)

\* SELECT COUNT(*) as count FROM ... WHERE is_deleted = 0
CountLive(rows) == Cardinality({x \in rows : x.is_deleted = 0})

\* The handler's response once getStats has returned both counts: /metrics
\* prints them (memory and uptime lines are left out), /status reports them
\* with 200, or 503 when getBalance had failed.
StatsRespond(rq) ==
    IF rq.stats.have # {"objects", "buckets"} THEN rq
    ELSE IF rq.path = "/metrics"
    THEN Returned(RespondJson(rq, 200,
                              [s3_irys_objects_total |-> rq.stats.objects,
                               s3_irys_buckets_total |-> rq.stats.buckets]))
    ELSE Returned(RespondJson(rq, IF rq.balanceError THEN 503 ELSE 200,
                              [irys |-> [connected |-> ~rq.balanceError],
                               database |->
                                  [connected |-> TRUE,
                                   stats |-> [objects |-> rq.stats.objects,
                                              buckets |-> rq.stats.buckets]]]))

\* getStats starts both COUNT queries under Promise.all; they complete in
\* either order.
CountObjects(r) ==
    /\ req[r].pc = "getStats"
    /\ "objects" \notin req[r].stats.have
    /\ req' = [req EXCEPT ![r] =
                 StatsRespond([@ EXCEPT !.stats.objects = CountLive(objects),
                                        !.stats.have = @ \cup {"objects"}])]
    /\ UNCHANGED <<objects, buckets, nextId, now, backend, nextReceipt, irys, db>>

CountBuckets(r) ==
    /\ req[r].pc = "getStats"
    /\ "buckets" \notin req[r].stats.have
    /\ req' = [req EXCEPT ![r] =
                 StatsRespond([@ EXCEPT !.stats.buckets = CountLive(buckets),
                                        !.stats.have = @ \cup {"buckets"}])]
    /\ UNCHANGED <<objects, buckets, nextId, now, backend, nextReceipt, irys, db>>

\* One of the COUNT queries rejects: getStats logs and throws 'Failed to get
\* database statistics'; /metrics answers 500, /status 503.
StatsError(r) ==
    /\ req[r].pc = "getStats"
    /\ LET failed == Logged(req[r], "Error getting stats:", "SQLITE_ERROR")
       IN req' = [req EXCEPT ![r] =
                    IF failed.path = "/metrics"
                    THEN Returned(RespondJson(failed, 500,
                            [error |-> "Failed to generate metrics",
                             details |-> "Failed to get database statistics"]))
                    ELSE Returned(RespondJson(failed, 503,
                            [irys |-> [connected |-> ~failed.balanceError],
                             database |->
                                [connected |-> FALSE,
                                 error |-> "Failed to get database statistics"]]))]
    /\ UNCHANGED <<objects, buckets, nextId, now, backend, nextReceipt, irys, db>>

\* One client at a time.
KeyedReq == {1}

KeyedNext ==
    \E r \in KeyedReq :
       \/ S3Request(r)
       \/ HealthRequest(r)
       \/ StatusRequest(r)
       \/ GetBalance(r)
       \/ MetricsRequest(r)
       \/ CountObjects(r)
       \/ CountBuckets(r)
       \/ StatsError(r)
       \/ UploadOk(r)
       \/ UploadFail(r)
       \/ EnsureBucket(r)
       \/ Insert(r)
       \/ Select(r)
       \/ DelGet(r)
       \/ DelUpdate(r)
       \/ HeadGet(r)
       \/ GetGet(r)
       \/ GatewayOk(r)
       \/ GatewayFail(r)
       \/ ListAll(r)
       \/ ListAllBuckets(r)
       \/ DbError(r)
       \/ Finish(r)

KeyedSpec == Init /\ [][KeyedNext]_vars

\* ------------------------------------------------- runs with metadata
\* The headers of the PUT requests of a run: none, x-amz-meta-a with one of
\* two values, with a content-type ahead of it, x-amz-meta-__proto__, both.
ContentType == <<"c", "o", "n", "t", "e", "n", "t", "-", "t", "y", "p", "e">>
RequestHeaders ==
    {<<>>,
     <<<<XAmzMeta \o <<"a">>, "1">>>>,
     <<<<XAmzMeta \o <<"a">>, "2">>>>,
     <<<<ContentType, "t">>, <<XAmzMeta \o <<"a">>, "1">>>>,
     <<<<XAmzMeta \o Proto, "1">>>>,
     <<<<XAmzMeta \o <<"a">>, "1">>, <<XAmzMeta \o Proto, "1">>>>}

\* The key the requests of such a run address.
MetaTargets == {<<"b1", <<97>>>>}

\* A raw PUT with headers whose body arrives in one chunk.
MetaPut(r) ==
    /\ req[r].pc = "idle"
    /\ \E t \in MetaTargets, headers \in RequestHeaders :
          req' = [req EXCEPT ![r] =
                    OnStream(Route([@ EXCEPT !.headers = headers],
                                   "PUT", t[1], t[2]),
                             <<<<0>>>>, "end")]
    /\ UNCHANGED <<objects, buckets, nextId, now, backend, nextReceipt, irys, db>>

\* GET, HEAD or DELETE of the key.
MetaRead(r) ==
    /\ req[r].pc = "idle"
    /\ \E t \in MetaTargets, method \in {"GET", "HEAD", "DELETE"} :
          req' = [req EXCEPT ![r] = Route(@, method, t[1], t[2])]
    /\ UNCHANGED <<objects, buckets, nextId, now, backend, nextReceipt, irys, db>>

\* One client writes, the other reads and deletes.
MetaNext ==
    \/ MetaPut(1)
    \/ MetaRead(2)
    \/ \E r \in Req :
          \/ UploadOk(r)
          \/ UploadFail(r)
          \/ EnsureBucket(r)
          \/ Insert(r)
          \/ Select(r)
          \/ DelGet(r)
          \/ DelUpdate(r)
          \/ HeadGet(r)
          \/ GetGet(r)
          \/ GatewayOk(r)
          \/ GatewayFail(r)
          \/ DbError(r)
          \/ Finish(r)

MetaSpec == Init /\ [][MetaNext]_vars

\* ================================================================ claims
\* Position of a putObject between the call of uploadToIrys and its return.
PutInFlight == {"uploading", "ensureBucket", "insert", "select"}

\* The listing options the claims range over.
ListPrefixes == {<<>>, <<97>>, <<98>>}
ListMarkers == {<<>>, <<96>>}
ListMaxKeys == {0, 1, 1001}

\* C1: for every (bucket, key) pair at most one object row has
\* is_deleted = 0.
C1_AtMostOneLive ==
    \A b \in Buckets, k \in Keys : Cardinality(SelectLive(objects, b, k)) <= 1

\* C2: in the state right after storeObjectMapping's insert for (bucket, key)
\* with receipt id i, every record getObjectMapping(bucket, key) may return
\* is the just-written one (irys_id = i), also when the key already had a
\* live record.
C2_ReadYourWrite ==
    [][\A r \in Req :
          Insert(r) =>
             \A record \in GetObjectMappingResults(objects', req[r].bucket,
                                                   req[r].key) :
                record.irys_id = req[r].receipt]_vars

\* C3: when two storeObjectMapping calls on the same (bucket, key) are in
\* flight together and both inserts are committed, getObjectMapping returns
\* exactly one live record: the one inserted last.
C3_LastWriterWins ==
    \A r1, r2 \in Req :
       (/\ r1 # r2
        /\ req[r1].pc = "select" /\ req[r2].pc = "select"
        /\ req[r1].bucket = req[r2].bucket /\ req[r1].key = req[r2].key)
       => \E o \in objects :
             /\ GetObjectMappingResults(objects, req[r1].bucket, req[r1].key) = {o}
             /\ o.irys_id \in {req[r1].receipt, req[r2].receipt}
             /\ \A p \in objects : p.id <= o.id

\* C4: every object row's irys_id is the id of a receipt the backend returned
\* for a completed upload, and a putObject is in storeObjectMapping only with
\* the receipt of its own completed upload: the commit neither precedes a
\* successful upload nor happens without one.
C4_CommitAfterUpload ==
    /\ \A o \in objects : o.irys_id \in backend
    /\ \A r \in Req :
          req[r].pc \in {"ensureBucket", "insert", "select"}
             => req[r].receipt \in backend
    /\ \A r \in Req :
          req[r].pc \in {"idle", "uploading"} \/ req[r].method # "PUT"
             => req[r].receipt = 0

\* C4 witness: a putObject was answered 200 and its row is live.
C4_Witness ==
    \E r \in Req :
       /\ req[r].pc = "done" /\ req[r].method = "PUT" /\ req[r].status = 200
       /\ \E o \in SelectLive(objects, req[r].bucket, req[r].key) :
             o.irys_id = req[r].txid /\ o.irys_id \in backend

\* C5: a PUT answered 413 EntityTooLarge never reaches the backend: its
\* putObject never calls uploadToIrys and stores no mapping.
C5_RejectedNeverUploads ==
    \A r \in Req : req[r].status = 413 => req[r].pc \notin PutInFlight

\* C6: right after deleteObjectMapping(bucket, x), getObjectMapping(bucket, x)
\* returns null and no listing of the bucket holds x; and a key without a
\* live record stays without one in every step that is not an insert for it.
C6_DeleteThenRead ==
    [][/\ \A r \in Req :
             DelUpdate(r) =>
                /\ GetObjectMappingResults(objects', req[r].bucket, req[r].key)
                      = {Null}
                /\ \A prefix \in ListPrefixes, marker \in ListMarkers,
                      maxKeys \in ListMaxKeys :
                      \A page \in ListObjects(objects', req[r].bucket, prefix,
                                              marker, maxKeys) :
                         \A i \in DOMAIN page : page[i].key # req[r].key
       /\ \A b \in Buckets, k \in Keys :
             (/\ SelectLive(objects, b, k) = {}
              /\ ~ \E r \in Req :
                      Insert(r) /\ req[r].bucket = b /\ req[r].key = k)
             => /\ SelectLive(objects', b, k) = {}
                /\ \A page \in ListObjects(objects', b, <<>>, <<>>, 0) :
                      \A i \in DOMAIN page : page[i].key # k]_vars

\* C6 witness: deleteObjectMapping has soft-deleted a row of a key that was
\* written, and the key has no live row.
C6_Witness ==
    \E r \in Req :
       /\ req[r].pc = "done" /\ req[r].method = "DELETE" /\ req[r].deleted
       /\ SelectLive(objects, req[r].bucket, req[r].key) = {}
       /\ \E o \in objects :
             o.bucket = req[r].bucket /\ o.key = req[r].key /\ o.is_deleted = 1

\* C7: deleteObjectMapping returns true exactly when (bucket, key) had a live
\* row; called on a key without a live row (a second delete with no write in
\* between) it returns false and changes no bucket row and no object row.
C7_SoftDeleteIdempotent ==
    [][\A r \in Req :
          DelUpdate(r) =>
             /\ req'[r].deleted
                   = (SelectLive(objects, req[r].bucket, req[r].key) # {})
             /\ SelectLive(objects', req[r].bucket, req[r].key) = {}
             /\ SelectLive(objects, req[r].bucket, req[r].key) = {}
                   => objects' = objects /\ buckets' = buckets]_vars

\* C7 witness: a deleteObjectMapping call returned false (the row it was to
\* delete was deleted by the call before it) after the clock had moved on.
C7_Witness ==
    \E r \in Req :
       /\ req[r].pc = "done" /\ req[r].method = "DELETE" /\ req[r].status = 204
       /\ req[r].txid # 0 /\ ~ req[r].deleted
       /\ \E o \in objects :
             /\ o.bucket = req[r].bucket /\ o.key = req[r].key
             /\ o.is_deleted = 1 /\ o.updated_at < now

\* C8: deleteObject on a key without a live record answers 204 and changes
\* no row.
C8_DeleteAbsentIsNoOp ==
    [][\A r \in Req :
          (DelGet(r) /\ SelectLive(objects, req[r].bucket, req[r].key) = {})
             => /\ req'[r].pc = "done"
                /\ req'[r].status = 204
                /\ objects' = objects /\ buckets' = buckets]_vars

\* C8 witness: a DELETE of a key whose only row was deleted before has been
\* answered 204 without a transaction id.
C8_Witness ==
    \E r \in Req :
       /\ req[r].pc = "done" /\ req[r].method = "DELETE" /\ req[r].status = 204
       /\ req[r].txid = 0
       /\ SelectLive(objects, req[r].bucket, req[r].key) = {}
       /\ \E o \in objects :
             o.bucket = req[r].bucket /\ o.key = req[r].key /\ o.is_deleted = 1

\* The row of objs with the given rowid.
RowById(objs, id) == CHOOSE o \in objs : o.id = id

\* C9 as stated: no step removes a receipt id from the object rows; a step
\* of deleteObject calls no backend, keeps every row, and changes nothing
\* but is_deleted, and that only on rows of the addressed (bucket, key).
C9_DeleteOnlyFlipsIsDeleted ==
    [][/\ {o.irys_id : o \in objects} \subseteq {o.irys_id : o \in objects'}
       /\ \A r \in Req :
             (DelGet(r) \/ DelUpdate(r)) =>
                /\ backend' = backend /\ nextReceipt' = nextReceipt
                /\ {o.id : o \in objects'} = {o.id : o \in objects}
                /\ \A o \in objects :
                      \/ RowById(objects', o.id) = o
                      \/ /\ o.bucket = req[r].bucket /\ o.key = req[r].key
                         /\ RowById(objects', o.id) = [o EXCEPT !.is_deleted = 1]]_vars

\* C9 amended: as C9, but the rows a delete flips also get updated_at set to
\* the current timestamp.
C9_DeleteOnlySoftDeletes ==
    [][/\ {o.irys_id : o \in objects} \subseteq {o.irys_id : o \in objects'}
       /\ \A r \in Req :
             (DelGet(r) \/ DelUpdate(r)) =>
                /\ backend' = backend /\ nextReceipt' = nextReceipt
                /\ {o.id : o \in objects'} = {o.id : o \in objects}
                /\ \A o \in objects :
                      \/ RowById(objects', o.id) = o
                      \/ /\ o.bucket = req[r].bucket /\ o.key = req[r].key
                         /\ o.is_deleted = 0
                         /\ RowById(objects', o.id)
                               = [o EXCEPT !.is_deleted = 1, !.updated_at = now]]_vars

\* C9 witness: a delete has flipped a row while a row of another
\* (bucket, key) stayed live.
C9_Witness ==
    \E r \in Req :
       /\ req[r].pc = "done" /\ req[r].method = "DELETE" /\ req[r].deleted
       /\ \E o \in objects :
             /\ o.bucket = req[r].bucket /\ o.key = req[r].key /\ o.is_deleted = 1
             /\ o.updated_at > o.last_modified
       /\ \E o \in objects :
             (o.bucket # req[r].bucket \/ o.key # req[r].key) /\ o.is_deleted = 0

\* C10: the row inserted for a key that has a live record gets a
\* last_modified strictly greater than that of every record live before.
C10_LastModifiedGrows ==
    [][\A r \in Req :
          Insert(r) =>
             \A o \in SelectLive(objects, req[r].bucket, req[r].key) :
                \A n \in objects' \ objects :
                   n.last_modified > o.last_modified]_vars

\* ------------------------------------------------------ listing claims
\* p is a literal, byte-wise prefix of k.
IsPrefix(p, k) == Len(p) <= Len(k) /\ SubSeq(k, 1, Len(p)) = p

\* The live rows of bucket b whose key starts with prefix and, when marker
\* is not empty, is greater than marker.
LiveMatching(objs, b, prefix, marker) ==
    {o \in objs :
        /\ o.bucket = b /\ o.is_deleted = 0
        /\ IsPrefix(prefix, o.key)
        /\ marker # <<>> => KeyLess(marker, o.key)}

\* The keys of a set in ascending byte order, each once.
KeysAscending(keys) ==
    CHOOSE s \in [1..Cardinality(keys) -> keys] :
       \A i, j \in DOMAIN s : i < j => KeyLess(s[i], s[j])

\* A slot holds a listing (GET of a bucket) answered 200.
Listed(rq) ==
    rq.pc = "done" /\ rq.method = "GET" /\ rq.key = <<>> /\ rq.status = 200

\* C11: the rows listObjects returns are exactly the live rows of the bucket
\* whose key starts with the prefix, byte for byte, and is greater than a
\* non-empty marker (the first rows of them when a LIMIT cuts the result),
\* in ascending key order.
C11_ListIsLiteralPrefix ==
    [][\A r \in Req :
          ListAll(r) =>
             \A rows \in ListObjectsWith(objects, req[r].bucket,
                                        ListOptions(req[r].query)) :
                LET expected == LiveMatching(objects, req[r].bucket,
                                    req[r].query.prefix, req[r].query.marker)
                    limit == ListOptions(req[r].query).maxKeys
                IN /\ {rows[i] : i \in DOMAIN rows} \subseteq expected
                   /\ \/ {rows[i] : i \in DOMAIN rows} = expected
                      \/ ~limit.nan /\ limit.val > 0 /\ Len(rows) = limit.val
                   /\ \A i, j \in DOMAIN rows :
                         i < j => ~KeyLess(rows[j].key, rows[i].key)]_vars

\* C12: in every listing response IsTruncated is true exactly when the
\* query matches more rows than the page holds; when it is true NextMarker
\* is the key of the last entry of Contents, when it is false the response
\* has no NextMarker.
C12_TruncationAndMarker ==
    [][\A r \in Req :
          (ListAll(r) /\ req'[r].status = 200) =>
             LET response == req'[r].json
                 matching == ListMatches(objects, req[r].bucket,
                                req[r].query.prefix, req[r].query.marker)
             IN /\ response.IsTruncated
                      = (Cardinality(matching) > Len(response.Contents))
                /\ response.IsTruncated =>
                      /\ "NextMarker" \in DOMAIN response
                      /\ response.Contents # <<>>
                      /\ response.NextMarker
                            = response.Contents[Len(response.Contents)].Key
                /\ ~response.IsTruncated => "NextMarker" \notin DOMAIN response]_vars

\* C12 witness: a page of one key was answered with IsTruncated and that key
\* as NextMarker, and the next page was answered without NextMarker.
C12_Witness ==
    \E r \in Req :
       /\ Listed(req[r])
       /\ req[r].query.marker # <<>> /\ req[r].client.start = <<>>
       /\ Len(req[r].client.collected) > Len(req[r].json.Contents)
       /\ req[r].json.Contents # <<>>
       /\ ~req[r].json.IsTruncated
       /\ "NextMarker" \notin DOMAIN req[r].json

\* C13: a caller that starts with an empty marker and a max-keys of at
\* least 1 and follows NextMarker until IsTruncated is false has received
\* the live keys that start with the prefix, in ascending order, each once.
C13_PagesCoverKeysOnce ==
    \A r \in Req :
       (/\ Listed(req[r])
        /\ ~req[r].json.IsTruncated
        /\ req[r].client.start = <<>>
        /\ ~MaxKeysOf(req[r].query).nan
        /\ MaxKeysOf(req[r].query).val >= 1)
       => req[r].client.collected
             = KeysAscending({o.key : o \in LiveMatching(objects, req[r].bucket,
                                              req[r].query.prefix, <<>>)})

\* C14: a page never holds more than 1000 entries and never more than the
\* max-keys the caller asked for (none when that is zero or negative).
C14_PageWithinMaxKeys ==
    \A r \in Req :
       Listed(req[r]) =>
          LET asked == ParseInt(req[r].query.maxKeys)
          IN /\ Len(req[r].json.Contents) <= 1000
             /\ ~asked.nan =>
                   Len(req[r].json.Contents)
                      <= (IF asked.val < 0 THEN 0 ELSE asked.val)

\* C15: a listing with max-keys = 0 whose query matches a live key is
\* answered 200 with an empty page, IsTruncated = true and a NextMarker.
C15_MaxKeysZeroTruncates ==
    [][\A r \in Req :
          (/\ ListAll(r)
           /\ req[r].query.maxKeys = <<"0">>
           /\ ListMatches(objects, req[r].bucket, req[r].query.prefix,
                          req[r].query.marker) # {})
          => /\ req'[r].status = 200
             /\ req'[r].json.Contents = <<>>
             /\ req'[r].json.IsTruncated
             /\ "NextMarker" \in DOMAIN req'[r].json]_vars

\* C16: a listing whose prefix no live key of the bucket starts with, or
\* whose marker no live key of the bucket is greater than, is answered 200
\* with an empty page and IsTruncated = false.
C16_NoMatchIsEmptyPage ==
    [][\A r \in Req :
          (/\ ListAll(r)
           /\ \/ LiveMatching(objects, req[r].bucket, req[r].query.prefix,
                              <<>>) = {}
              \/ /\ req[r].query.marker # <<>>
                 /\ LiveMatching(objects, req[r].bucket, <<>>,
                                 req[r].query.marker) = {})
          => /\ req'[r].status = 200
             /\ req'[r].json.Contents = <<>>
             /\ ~req'[r].json.IsTruncated]_vars

\* C17: the response of a listing is one the same listing gives without
\* delimiter, and it has no CommonPrefixes member.
C17_DelimiterIgnored ==
    [][\A r \in Req :
          ListAll(r) =>
             /\ \E rows \in ListObjectsWith(objects, req[r].bucket,
                     ListOptions([req[r].query EXCEPT !.delimiter = <<>>])) :
                   LET plain == ListObjectsV1(
                            [req[r] EXCEPT !.query.delimiter = <<>>], rows)
                   IN /\ plain.status = req'[r].status
                      /\ plain.json = req'[r].json
             /\ "CommonPrefixes" \notin DOMAIN req'[r].json]_vars

\* C17 witness: a listing with prefix "a" and delimiter "/" was answered with
\* the key "a/" among its Contents.
C17_Witness ==
    \E r \in Req :
       /\ Listed(req[r])
       /\ req[r].query.delimiter = <<47>> /\ req[r].query.prefix = <<97>>
       /\ \E i \in DOMAIN req[r].json.Contents :
             req[r].json.Contents[i].Key = <<97, 47>>

\* ------------------------------------------------------------ ETag claims
\* C18: two uploads of the same bytes get the same ETag: when two putObject
\* calls with equal fileBuffer have both stored their mapping, the two rows
\* carry the same etag.
C18_EtagOfPayload ==
    \A r1, r2 \in Req :
       (/\ req[r1].pc = "select" /\ req[r2].pc = "select"
        /\ req[r1].body = req[r2].body)
       => \A o1, o2 \in objects :
             (o1.irys_id = req[r1].receipt /\ o2.irys_id = req[r2].receipt)
                => o1.etag = o2.etag

C20_DeletedLooksAbsent ==
    [][\A r \in Req :
          (/\ GetGet(r) \/ HeadGet(r)
           /\ SelectLive(objects, req[r].bucket, req[r].key) = {})
          => /\ req'[r].pc = "done"
             /\ req'[r].status = 404
             /\ req'[r].json = NoSuchKey
             /\ req'[r].etag = NoHeader /\ req'[r].txid = 0]_vars

\* C20 witness: a GET of a key whose rows are all soft-deleted was answered
\* 404 NoSuchKey, in a store that holds no row of another key.
C20_Witness ==
    \E r \in Req :
       /\ req[r].pc = "done" /\ req[r].method = "GET" /\ req[r].key # <<>>
       /\ req[r].status = 404 /\ req[r].json = NoSuchKey
       /\ \E o \in objects :
             o.bucket = req[r].bucket /\ o.key = req[r].key /\ o.is_deleted = 1
       /\ \E k \in ListKeys : \A o \in objects : o.key # k

\* ------------------------------------------------------- uploader claims
\* C29: however many calls of getIrysUploader overlap, at most one uploader
\* is constructed and all callers get the same instance.
C29_SingleFlight ==
    /\ irys.constructed <= 1
    /\ \A r1, r2 \in DOMAIN req :
          (req[r1].uploader # NoUploader /\ req[r2].uploader # NoUploader)
             => req[r1].uploader = req[r2].uploader

\* ---------------------------------------------------- write-path claims
\* The lines of a request's log under a given text.
LogLines(rq, line) == {entry \in rq.log : entry[1] = line}

\* C21: a putObject whose upload succeeded and whose storeObjectMapping then
\* failed is told apart from one whose upload failed: the first logs 'Error
\* storing object mapping:' and its 500 carries the details 'Failed to store
\* object mapping', the second logs no such line and its 500 carries other
\* details.
C21_StoreFailureDistinct ==
    [][\A r \in Req :
          /\ (/\ DbError(r)
              /\ req[r].method = "PUT"
              /\ req[r].pc \in {"ensureBucket", "insert"})
             => /\ req[r].receipt \in backend
                /\ LogLines(req'[r], "Error storing object mapping:") # {}
                /\ req[r].status = 0
                      => /\ req'[r].status = 500
                         /\ req'[r].json.details = "Failed to store object mapping"
          /\ UploadFail(r)
             => /\ LogLines(req'[r], "Error storing object mapping:") = {}
                /\ req[r].status = 0
                      => /\ req'[r].status = 500
                         /\ req'[r].json.details # "Failed to store object mapping"]_vars

\* C21 witness: a PUT was answered 500 with the details of a failed store
\* while the backend holds an upload no row refers to.
C21_Witness ==
    \E r \in Req :
       /\ req[r].pc = "done" /\ req[r].method = "PUT" /\ req[r].status = 500
       /\ req[r].json.details = "Failed to store object mapping"
       /\ LogLines(req[r], "Error storing object mapping:") # {}
       /\ \E id \in backend : \A o \in objects : o.irys_id # id

\* C22: a putObject whose upload timed out is answered differently from one
\* whose upload was rejected by the backend.
C22_AmbiguousWriteDistinct ==
    \A r1, r2 \in Req :
       (/\ req[r1].pc = "done" /\ req[r2].pc = "done"
        /\ <<"Error uploading to Irys:", "timeout">> \in req[r1].log
        /\ <<"Error uploading to Irys:", "rejected">> \in req[r2].log)
       => <<req[r1].status, req[r1].json>> # <<req[r2].status, req[r2].json>>

\* C23: a failed upload ends the request with a failure response and leaves
\* the object and bucket tables as they were; a PUT is answered 200 only
\* when its upload is in the backend and a row with its receipt is stored.
C23_NoSwallowedWriteError ==
    [][\A r \in Req :
          /\ UploadFail(r)
             => /\ req'[r].pc = "done"
                /\ req'[r].status >= 400
                /\ objects' = objects /\ buckets' = buckets
          /\ (req'[r].method = "PUT" /\ req'[r].status = 200)
             => /\ req'[r].txid \in backend'
                /\ \E o \in objects' : o.irys_id = req'[r].txid]_vars

\* C23 witness: a PUT whose upload failed was answered 500 and its bucket
\* has no row.
C23_Witness ==
    \E r \in Req :
       /\ req[r].pc = "done" /\ req[r].method = "PUT" /\ req[r].status = 500
       /\ LogLines(req[r], "Error uploading to Irys:") # {}
       /\ \A b \in buckets : b.name # req[r].bucket
       /\ \A o \in objects : o.bucket # req[r].bucket

\* C30: a putObject calls uploader.upload at most once, whatever the
\* outcome of the call.
C30_UploadAtMostOnce ==
    \A r \in Req : req[r].uploads <= 1

\* C30 witness: a PUT whose upload timed out has returned after one call.
C30_Witness ==
    \E r \in Req :
       /\ req[r].pc = "done" /\ req[r].method = "PUT"
       /\ <<"Error uploading to Irys:", "timeout">> \in req[r].log
       /\ req[r].uploads = 1

\* -------------------------------------------------------- bucket claims
\* The names a listAllBuckets response carries.
NamesListed(rq) == {rq.json.Buckets[i].Name : i \in DOMAIN rq.json.Buckets}

\* C24: a listAllBuckets response names a bucket only if an object write
\* into it has succeeded (an object row of the bucket is stored), names
\* each bucket once, and a bucket that is listed stays listed.
C24_BucketsFromObjectWrites ==
    [][/\ \A r \in Req :
             ListAllBuckets(r)
                => /\ \A name \in NamesListed(req'[r]) :
                         \E o \in objects : o.bucket = name
                   /\ \A i, j \in DOMAIN req'[r].json.Buckets :
                         req'[r].json.Buckets[i] = req'[r].json.Buckets[j]
                            => i = j
       /\ \A i \in DOMAIN ListBuckets(buckets) :
             \E j \in DOMAIN ListBuckets(buckets') :
                ListBuckets(buckets')[j].name = ListBuckets(buckets)[i].name]_vars

\* C28: a storeObjectMapping that fails leaves none of its steps in effect:
\* no row with the request's receipt is stored, and the bucket has a row
\* only if an object row of the bucket is stored.
C28_StoreIsAtomic ==
    [][\A r \in Req :
          (DbError(r) /\ req[r].pc \in {"ensureBucket", "insert", "select"})
             => /\ \A o \in objects' : o.irys_id # req[r].receipt
                /\ (\E b \in buckets' : b.name = req[r].bucket)
                      => \E o \in objects' : o.bucket = req[r].bucket]_vars

\* ------------------------------------------------ authentication claims
\* C25: with an API key configured, a request to an S3 route whose header
\* and query carry no key or only wrong ones is answered 401 Unauthorized at
\* once, no handler runs for it and store and backend stay as they were;
\* /health, /status and /metrics are taken up by their handlers whatever the
\* request carries, and are never answered 401.
C25_KeyRequired ==
    [][\A r \in DOMAIN req :
          /\ (/\ S3Request(r)
              /\ req'[r].xApiKey # ApiKey /\ req'[r].apiKey # ApiKey)
             => /\ req'[r].pc = "done"
                /\ req'[r].status = 401 /\ req'[r].json = Unauthorized
                /\ req'[r].bucket = "" /\ req'[r].key = <<>>
                /\ req'[r].uploads = 0 /\ req'[r].log = {}
                /\ UNCHANGED <<objects, buckets, nextId, backend, nextReceipt>>
          /\ HealthRequest(r) => req'[r].status = 200
          /\ (StatusRequest(r) \/ MetricsRequest(r))
             => req'[r].pc \in {"getBalance", "getStats"}
          /\ req'[r].path # "" => req'[r].status # 401]_vars

\* C25 witness: a request without any key was answered 401 while the store
\* holds a live object.
C25_Witness ==
    \E r \in DOMAIN req :
       /\ req[r].pc = "done" /\ req[r].status = 401
       /\ req[r].xApiKey = "" /\ req[r].apiKey = ""
       /\ \E o \in objects : o.is_deleted = 0

\* ---------------------------------------------------------- stats claims
\* C27: the counts /metrics and /status report from getStats are the number
\* of object rows with is_deleted = 0 and the number of bucket rows with
\* is_deleted = 0 (the store does not change while the one client's request
\* is served).
C27_StatsCountLiveRows ==
    \A r \in DOMAIN req :
       /\ (req[r].pc = "done" /\ req[r].path = "/metrics" /\ req[r].status = 200)
          => /\ req[r].json.s3_irys_objects_total
                   = Cardinality({o \in objects : o.is_deleted = 0})
             /\ req[r].json.s3_irys_buckets_total
                   = Cardinality({b \in buckets : b.is_deleted = 0})
       /\ (/\ req[r].pc = "done" /\ req[r].path = "/status"
           /\ req[r].json.database.connected)
          => /\ req[r].json.database.stats.objects
                   = Cardinality({o \in objects : o.is_deleted = 0})
             /\ req[r].json.database.stats.buckets
                   = Cardinality({b \in buckets : b.is_deleted = 0})

\* C27 witness: /metrics reported fewer objects than the table has rows: a
\* soft-deleted row was left out.
C27_Witness ==
    \E r \in DOMAIN req :
       /\ req[r].pc = "done" /\ req[r].path = "/metrics" /\ req[r].status = 200
       /\ req[r].json.s3_irys_objects_total < Cardinality(objects)
       /\ \E o \in objects : o.is_deleted = 1

\* ------------------------------------------------------- metadata claims
\* The x-amz-meta-* headers among the headers of a request.
SentMeta(headers) ==
    {headers[i] : i \in {j \in DOMAIN headers : StartsWith(headers[j][1], XAmzMeta)}}

\* The row a successful PUT wrote is live and no later row of its key
\* exists: the key was neither overwritten nor deleted since.
Current(rq) ==
    \E o \in objects :
       /\ o.irys_id = rq.txid /\ o.is_deleted = 0
       /\ \A p \in objects : (p.bucket = o.bucket /\ p.key = o.key) => p.id <= o.id

\* C26: while the row of a successful putObject is current, headObject
\* answers 200 with exactly the x-amz-meta-* headers the PUT carried, and the
\* record getObject takes its headers from gives exactly those headers.
C26_MetadataRoundTrips ==
    [][\A w, rd \in DOMAIN req :
          (/\ req[w].pc = "done" /\ req[w].method = "PUT" /\ req[w].status = 200
           /\ Current(req[w])
           /\ req[rd].bucket = req[w].bucket /\ req[rd].key = req[w].key)
          => /\ HeadGet(rd)
                => /\ req'[rd].status = 200
                   /\ req'[rd].meta = SentMeta(req[w].headers)
             /\ GetGet(rd)
                => /\ req'[rd].pc = "fetching"
                   /\ MetaHeaders(req'[rd].record) = SentMeta(req[w].headers)]_vars

\* ----------------------------------------------------------- frame claims
\* The steps of storeObjectMapping and deleteObjectMapping that write.
Writes(r) == EnsureBucket(r) \/ Insert(r) \/ DelUpdate(r)

\* C31: a step of storeObjectMapping or deleteObjectMapping on one (bucket,
\* key) leaves what getObjectMapping may return for every other (bucket,
\* key) as it was, whatever the other requests are doing.
C31_OtherKeysUntouched ==
    [][\A r \in DOMAIN req : \A b \in Buckets, k \in Keys :
          (Writes(r) /\ <<b, k>> # <<req[r].bucket, req[r].key>>)
             => GetObjectMappingResults(objects', b, k)
                   = GetObjectMappingResults(objects, b, k)]_vars

\* C31 witness: a DELETE on one bucket's key has marked its rows while the
\* same key of the other bucket has a live record.
C31_Witness ==
    \E r \in DOMAIN req :
       /\ req[r].pc = "done" /\ req[r].method = "DELETE" /\ req[r].deleted
       /\ \E o \in objects :
             o.bucket = req[r].bucket /\ o.key = req[r].key /\ o.is_deleted = 1
       /\ \E p \in objects : p.bucket # req[r].bucket /\ p.is_deleted = 0

\* The steps of getObject, headObject, listObjectsV1 and listAllBuckets,
\* their failures included.
Reads(r) ==
    \/ GetGet(r) \/ GatewayOk(r) \/ GatewayFail(r)
    \/ HeadGet(r) \/ ListAll(r) \/ ListAllBuckets(r)
    \/ /\ DbError(r)
       /\ req[r].pc \in {"getGet", "headGet", "listAll", "listBuckets"}

\* C32: no step of getObject, headObject, listObjectsV1 or listAllBuckets
\* changes a bucket or object row, also when the gateway answers 404, fails
\* or times out.
C32_ReadsArePure ==
    [][\A r \in DOMAIN req :
          Reads(r) => objects' = objects /\ buckets' = buckets]_vars

\* C32 witness: a GET whose gateway fetch timed out was answered 500 while
\* the record it looked up is live.
C32_Witness ==
    \E r \in DOMAIN req :
       /\ req[r].pc = "done" /\ req[r].method = "GET" /\ req[r].status = 500
       /\ <<"Error fetching from Irys Gateway:", "timeout">> \in req[r].log
       /\ SelectLive(objects, req[r].bucket, req[r].key) # {}

C38_DeletedStaysDeleted ==
    [][\A o \in objects :
          o.is_deleted = 1
             => \E p \in objects' :
                   /\ p.id = o.id /\ p.is_deleted = 1
                   /\ p.bucket = o.bucket /\ p.key = o.key
                   /\ p.irys_id = o.irys_id]_vars

\* C38 witness: a key has a deleted row and a later live row.
C38_Witness ==
    \E o1, o2 \in objects :
       /\ o1.bucket = o2.bucket /\ o1.key = o2.key
       /\ o1.is_deleted = 1 /\ o2.is_deleted = 0 /\ o1.id < o2.id

\* ------------------------------------------------------- response claims
\* C34: a PUT request is sent one response: whatever the events of its
\* stream, no second response is attempted for it, and when its handling is
\* over a response has been sent.
C34_OneResponsePerPut ==
    \A r \in DOMAIN req :
       req[r].method = "PUT"
          => /\ req[r].resend = 0
             /\ req[r].pc = "done" => req[r].status # 0

\* C35: in a 200 of putObject the ETag is the quoted id of the request's own
\* upload (the x-irys-transaction-id, from which Location is built as well),
\* also when the key had a live record before.
C35_ResponseOfOwnUpload ==
    \A r \in DOMAIN req :
       (req[r].pc = "done" /\ req[r].method = "PUT" /\ req[r].status = 200)
          => req[r].etag = Quoted(req[r].txid)

\* ----------------------------------------------------- accounting claims
\* The entries of the un-prefixed, unlimited listings of the buckets from
\* the i-th on.
RECURSIVE ListedEntries(_)
ListedEntries(i) ==
    IF i > Len(BucketOrder) THEN 0
    ELSE Len(CHOOSE s \in ListObjects(objects, BucketOrder[i], <<>>, <<>>, 0) : TRUE)
         + ListedEntries(i + 1)

\* C39: the objects count of getStats is the number of (bucket, key) pairs
\* for which getObjectMapping returns a record, and the number of entries of
\* the full listings of all buckets, none of which names a key twice.
C39_CountsAgree ==
    /\ CountLive(objects)
          = Cardinality({t \in Buckets \X Keys :
                           GetObjectMappingResults(objects, t[1], t[2]) # {Null}})
    /\ CountLive(objects) = ListedEntries(1)
    /\ \A b \in Buckets : \A s \in ListObjects(objects, b, <<>>, <<>>, 0) :
          \A i, j \in DOMAIN s : s[i].key = s[j].key => i = j


\* C37: a failed getIrysUploader caches nothing usable: the cached uploader,
\* and every uploader a caller received, was switched to the configured
\* network (with network 'devnet': devnet() completed on it).
Configured(u) == Network = "devnet" => u \in irys.devnet

C37_NothingHalfConfigured ==
    /\ irys.uploader # NoUploader => Configured(irys.uploader)
    /\ \A r \in Callers :
          req[r].uploader # NoUploader => Configured(req[r].uploader)


\* C36: initDatabase hands out a handle only after the tables objects and
\* buckets exist, and opens at most one connection.
C36_HandleHasTables ==
    /\ db.opened <= 1
    /\ \A r \in Callers :
          req[r].handle # NoHandle => Tables \subseteq db.tables

====
